---------------------------- MODULE Spec2Model ----------------------------
(***************************************************************************)
(* A model of contents.py: the line-level PDF heading detector.            *)
(*                                                                         *)
(*   parse_pdf_lines        raw page/block/line/span dictionaries -> lines *)
(*   compute_line_spacing   per-page vertical gap to the previous line     *)
(*   mark_heading_candidates  rule-based heading classifier                *)
(*   build_html_from_lines  serialisation to a <div> of <h2>/<p> elements  *)
(*                                                                         *)
(* Representation.                                                         *)
(*  - A Python str is a sequence of one-character strings.  The three     *)
(*    full-width marks are the one-code-point tokens "U+3002", "U+FF01"   *)
(*    and "U+FF1F".                                                        *)
(*  - A Python float is a fixed-point integer counting halves: the value  *)
(*    v stands for v/2.  Pt(n) is the whole number n.  Sizes and          *)
(*    coordinates are drawn from whole numbers, thresholds from halves    *)
(*    (the step of the size slider), so the sums, differences and the     *)
(*    average of two sizes the code computes are exact in this format.    *)
(*  - Optional[float] is None (the empty tuple) or Some(v) (a 1-tuple).   *)
(***************************************************************************)
EXTENDS Integers, Sequences, FiniteSets, TLC

VARIABLES
    raw,        \* the page dictionaries handed to parse_pdf_lines
    lines_in,   \* the list a function was called with
    lines,      \* the list a function returned
    args,       \* the thresholds of the last mark_heading_candidates call
    html,       \* the string build_html_from_lines returned
    pc          \* which call has returned

vars == <<raw, lines_in, lines, args, html, pc>>

-----------------------------------------------------------------------------
(* Values *)

None == <<>>

Some(v) == <<v>>

Pt(n) == 2 * n

\* The dataclass LineInfo with its two defaulted fields.
LineInfo(page, line_index, text, font, size, x0, y0, x1, y1) ==
    [page |-> page, line_index |-> line_index, text |-> text, font |-> font,
     size |-> size, x0 |-> x0, y0 |-> y0, x1 |-> x1, y1 |-> y1,
     spacing_before |-> None, is_heading |-> FALSE]

RECURSIVE Flatten(_)
\* The concatenation of a sequence of sequences.
Flatten(ss) == IF ss = <<>> THEN <<>> ELSE Head(ss) \o Flatten(Tail(ss))

\* a < b for two integer tuples of one length, as Python compares tuples.
LexLess(a, b) ==
    \E k \in 1..Len(a) : a[k] < b[k] /\ \A j \in 1..(k - 1) : a[j] = b[j]

\* sorted(s, key=...) where keys[i] is the key of s[i].  Python's sort is
\* stable: elements with equal keys keep their input order.
sorted(s, keys) ==
    LET n == Len(s)
        before(j, i) == \/ LexLess(keys[j], keys[i])
                        \/ keys[j] = keys[i] /\ j < i
        pos(i) == Cardinality({j \in 1..n : before(j, i)}) + 1
    IN  [p \in 1..n |-> s[CHOOSE i \in 1..n : pos(i) = p]]

\* The elements of a finite set of integers in ascending order.
Ascending(S) ==
    [k \in 1..Cardinality(S) |-> CHOOSE x \in S : Cardinality({y \in S : y < x}) = k - 1]

-----------------------------------------------------------------------------
(* compute_line_spacing *)

\* The keys of by_page in insertion order: each page at its first occurrence.
page_keys(ls) ==
    LET first == Ascending({i \in 1..Len(ls) :
                              \A j \in 1..(i - 1) : ls[j].page # ls[i].page})
    IN  [k \in 1..Len(first) |-> ls[first[k]].page]

\* by_page[page]: the lines of the page, in input order.
by_page(ls, page) == SelectSeq(ls, LAMBDA l : l.page = page)

\* The walk that stores the raw difference, negative or not.
walk_page_signed(pls) ==
    [i \in 1..Len(pls) |->
        LET l == pls[i]
        IN  IF i = 1
            THEN [l EXCEPT !.spacing_before = None]
            ELSE [l EXCEPT !.spacing_before =
                      Some(l.y0 - pls[i - 1].y1)]]

\* The inner loop over one page's sorted lines pls; prev_line starts as None.
walk_page(pls) ==
    [i \in 1..Len(pls) |->
        LET l == pls[i]
        IN  IF i = 1
            THEN [l EXCEPT !.spacing_before = None]
            ELSE LET spacing == l.y0 - pls[i - 1].y1
                 IN  [l EXCEPT !.spacing_before =
                          IF spacing >= 0 THEN Some(spacing) ELSE None]]

\* One page's lines sorted by y0.
page_lines_sorted(ls, page) ==
    LET pl == by_page(ls, page)
    IN  sorted(pl, [i \in 1..Len(pl) |-> <<pl[i].y0>>])

\* One walk over all the pages' sorted lines with a prev_line that is never
\* reset: the first line of a later page is measured against the last line
\* of the page before it.
compute_line_spacing_no_reset(ls) ==
    LET keys == page_keys(ls)
    IN  walk_page(Flatten([k \in 1..Len(keys) |-> page_lines_sorted(ls, keys[k])]))

compute_line_spacing(ls) ==
    LET keys == page_keys(ls)
    IN  Flatten([k \in 1..Len(keys) |-> walk_page(page_lines_sorted(ls, keys[k]))])

-----------------------------------------------------------------------------
(* mark_heading_candidates *)

BodyTextLen == 20

\* The whitespace str.strip() removes, as far as the texts here hold any.
Whitespace == {" ", "\t", "\n", "\r"}

RECURSIVE lstrip(_)
lstrip(s) == IF s # <<>> /\ Head(s) \in Whitespace THEN lstrip(Tail(s)) ELSE s

RECURSIVE rstrip(_)
rstrip(s) ==
    IF s # <<>> /\ s[Len(s)] \in Whitespace
    THEN rstrip(SubSeq(s, 1, Len(s) - 1)) ELSE s

\* str.strip() with no argument.
strip(s) == rstrip(lstrip(s))

\* The tuple handed to str.endswith: each suffix is one code point.
TerminalPunctuation == {"U+3002", ".", "!", "U+FF01", "?", "U+FF1F"}

endswith(s, suffixes) == s # <<>> /\ s[Len(s)] \in suffixes

\* The sample that also leaves out the lines already flagged as headings.
body_sizes_skip_headings(ls) ==
    LET long == SelectSeq(ls, LAMBDA l : Len(l.text) > BodyTextLen /\ ~l.is_heading)
    IN  [i \in 1..Len(long) |-> long[i].size]

\* [l.size for l in lines if len(l.text) > 20]
body_sizes(ls) ==
    LET long == SelectSeq(ls, LAMBDA l : Len(l.text) > BodyTextLen)
    IN  [i \in 1..Len(long) |-> long[i].size]

\* The median that takes the upper of the two central values of an even
\* count instead of their average.
body_size_median_upper(sizes) ==
    LET body_sizes_sorted == sorted(sizes, [i \in 1..Len(sizes) |-> <<sizes[i]>>])
        mid == Len(body_sizes_sorted) \div 2
    IN  body_sizes_sorted[mid + 1]

\* The median of a non-empty list.  The two central values are whole
\* numbers (even counts of halves), so their average is exact.
body_size_median(sizes) ==
    LET body_sizes_sorted == sorted(sizes, [i \in 1..Len(sizes) |-> <<sizes[i]>>])
        mid == Len(body_sizes_sorted) \div 2
    IN  IF Len(body_sizes_sorted) % 2 = 1
        THEN body_sizes_sorted[mid + 1]
        ELSE (body_sizes_sorted[mid] + body_sizes_sorted[mid + 1]) \div 2

\* The loop body with the threshold subtracted from the median.
heading_of_minus_delta(l, median, size_delta_threshold, spacing_threshold, max_title_len) ==
    IF l.text = <<>>
    THEN FALSE
    ELSE LET cond_size == l.size >= median - size_delta_threshold
             cond_spacing == IF l.spacing_before # None
                             THEN l.spacing_before[1] >= spacing_threshold
                             ELSE TRUE
             cond_len == Len(l.text) <= max_title_len
             cond_punct == ~endswith(strip(l.text), TerminalPunctuation)
         IN  cond_size /\ cond_spacing /\ cond_len /\ cond_punct

\* The body of the loop over lines: the new value of l.is_heading.
heading_of(l, median, size_delta_threshold, spacing_threshold, max_title_len) ==
    IF l.text = <<>>
    THEN FALSE
    ELSE LET cond_size == l.size >= median + size_delta_threshold
             cond_spacing == IF l.spacing_before # None
                             THEN l.spacing_before[1] >= spacing_threshold
                             ELSE TRUE
             cond_len == Len(l.text) <= max_title_len
             cond_punct == ~endswith(strip(l.text), TerminalPunctuation)
         IN  cond_size /\ cond_spacing /\ cond_len /\ cond_punct

mark_heading_candidates(ls, size_delta_threshold, spacing_threshold, max_title_len) ==
    IF body_sizes(ls) = <<>>
    THEN ls
    ELSE LET body_size_median_ == body_size_median(body_sizes(ls))
         IN  [i \in 1..Len(ls) |->
                [ls[i] EXCEPT !.is_heading =
                    heading_of(ls[i], body_size_median_, size_delta_threshold,
                               spacing_threshold, max_title_len)]]

-----------------------------------------------------------------------------
(* build_html_from_lines *)

\* html.escape(s) with quote=True, one character at a time; "&" is replaced
\* first in the code, so no replacement is escaped again.
escape_char(c) ==
    CASE c = "&"  -> <<"&", "a", "m", "p", ";">>
      [] c = "<"  -> <<"&", "l", "t", ";">>
      [] c = ">"  -> <<"&", "g", "t", ";">>
      [] c = "\"" -> <<"&", "q", "u", "o", "t", ";">>
      [] c = "'"  -> <<"&", "#", "x", "2", "7", ";">>
      [] OTHER    -> <<c>>

escape(s) == Flatten([i \in 1..Len(s) |-> escape_char(s[i])])

Digit(d) == <<"0", "1", "2", "3", "4", "5", "6", "7", "8", "9">>[d + 1]

RECURSIVE str_int(_)
\* str(n) for an integer n >= 0.
str_int(n) == IF n < 10 THEN <<Digit(n)>> ELSE str_int(n \div 10) \o <<Digit(n % 10)>>

\* f"{v:.2f}" for a float v >= 0 held as a count of halves.
format_2f(v) ==
    str_int(v \div 2) \o (IF v % 2 = 0 THEN <<".", "0", "0">> ELSE <<".", "5", "0">>)

\* str(b).lower()
str_bool_lower(b) == IF b THEN <<"t", "r", "u", "e">> ELSE <<"f", "a", "l", "s", "e">>

RECURSIVE join(_, _)
\* sep.join(parts)
join(sep, parts) ==
    IF parts = <<>> THEN <<>>
    ELSE IF Len(parts) = 1 THEN parts[1]
    ELSE parts[1] \o sep \o join(sep, Tail(parts))

ContainerOpen == <<"<", "d", "i", "v", " ", "c", "l", "a", "s", "s", "=", "\"", "p",
      "d", "f", "-", "l", "i", "n", "e", "s", "\"", ">">>

ContainerClose == <<"<", "/", "d", "i", "v", ">">>

\* The list attrs of one line.
attrs_of(l) ==
    <<<<"d", "a", "t", "a", "-", "p", "a", "g", "e", "=", "\"">> \o str_int(l.page) \o <<"\"">>,
      <<"d", "a", "t", "a", "-", "f", "o", "n", "t", "=", "\"">> \o escape(l.font) \o <<"\"">>,
      <<"d", "a", "t", "a", "-", "s", "i", "z", "e", "=", "\"">> \o format_2f(l.size) \o <<"\"">> >>
    \o (IF l.spacing_before # None
        THEN << <<"d", "a", "t", "a", "-", "s", "p", "a", "c", "i", "n", "g", "-",
      "b", "e", "f", "o", "r", "e", "=", "\"">>
                \o format_2f(l.spacing_before[1]) \o <<"\"">> >>
        ELSE <<>>)
    \o << <<"d", "a", "t", "a", "-", "i", "s", "-", "h", "e", "a", "d", "i",
      "n", "g", "=", "\"">>
          \o str_bool_lower(l.is_heading) \o <<"\"">> >>

tag_of(l) == IF l.is_heading THEN <<"h", "2">> ELSE <<"p">>

\* The element appended to parts for one line.
element_of(l) ==
    <<" ", " ", "<">> \o tag_of(l) \o <<" ">> \o join(<<" ">>, attrs_of(l)) \o <<">">>
    \o escape(l.text) \o <<"<", "/">> \o tag_of(l) \o <<">">>

\* The sort with the key y0 alone.
lines_by_y0(ls) == sorted(ls, [i \in 1..Len(ls) |-> <<ls[i].y0>>])

\* sorted(lines, key=lambda x: (x.page, x.y0))
lines_by_page_y0(ls) == sorted(ls, [i \in 1..Len(ls) |-> <<ls[i].page, ls[i].y0>>])

\* The list parts when the loop has ended and "</div>" is appended.
parts_of(ls) ==
    LET s == lines_by_page_y0(ls)
    IN  <<ContainerOpen>> \o [i \in 1..Len(s) |-> element_of(s[i])] \o <<ContainerClose>>

\* The serialiser that returns the empty string for an empty list.
build_html_nothing_when_empty(ls) ==
    IF ls = <<>> THEN <<>> ELSE join(<<"\n">>, parts_of(ls))

build_html_from_lines(ls) == join(<<"\n">>, parts_of(ls))

-----------------------------------------------------------------------------
(* parse_pdf_lines *)

\* The raw lines of one page in the order of the two nested loops.
raw_lines_of(page) ==
    Flatten([b \in 1..Len(page.blocks) |-> page.blocks[b].lines])

\* "".join(s.get("text", "") for s in spans).strip()
line_text(spans) == strip(Flatten([i \in 1..Len(spans) |-> spans[i].text]))

RECURSIVE page_loop(_, _, _)
\* The loop body over the raw lines rl left on page page_index, with the
\* current value of line_counter: the records appended to all_lines.
page_loop(rl, page_index, line_counter) ==
    IF rl = <<>> THEN <<>>
    ELSE LET line == Head(rl)
             spans == line.spans
         IN  IF spans = <<>>
             THEN page_loop(Tail(rl), page_index, line_counter)
             ELSE IF line_text(spans) = <<>>
             THEN page_loop(Tail(rl), page_index, line_counter)
             ELSE LET main_span == spans[1]
                  IN  <<LineInfo(page_index + 1, line_counter, line_text(spans),
                                 main_span.font, main_span.size,
                                 line.bbox[1], line.bbox[2], line.bbox[3], line.bbox[4])>>
                      \o page_loop(Tail(rl), page_index, line_counter + 1)

\* line_counter set to 0 at each block instead of at each page.
page_records_per_block(page, page_index) ==
    Flatten([b \in 1..Len(page.blocks) |-> page_loop(page.blocks[b].lines, page_index, 0)])

\* One iteration of the loop over pages: line_counter = 0, then the blocks.
page_records(page, page_index) == page_loop(raw_lines_of(page), page_index, 0)

\* all_lines when the loop over enumerate(doc) has ended.
all_lines(doc) == Flatten([k \in 1..Len(doc) |-> page_records(doc[k], k - 1)])

parse_pdf_lines(doc) == compute_line_spacing(all_lines(doc))

-----------------------------------------------------------------------------
(* Inputs *)

MaxRaw == 4
MaxSpacingLines == 4
MaxMarkLines == 4
MaxHtmlLines == 3
MaxPipeLines == 2

\* The sequences over S of length at most n.
SeqUpTo(S, n) == UNION {[1..k -> S] : k \in 0..n}

Rep(c, n) == [i \in 1..n |-> c]

Arial == <<"A", "r", "i", "a", "l">>

ChapterOne == <<"C", "h", "a", "p", "t", "e", "r", " ", "O", "n", "e">>

Span(text, font, size) == [text |-> text, font |-> font, size |-> size]

\* Raw lines as page.get_text("dict") reports them: one with no spans, one
\* whose spans hold only whitespace, and two with text.
RawLines ==
    { [spans |-> <<>>, bbox |-> <<0, 0, Pt(100), Pt(10)>>],
      [spans |-> <<Span(<<" ">>, Arial, Pt(10)), Span(<<"\t">>, Arial, Pt(10))>>,
       bbox |-> <<0, Pt(10), Pt(100), Pt(20)>>],
      [spans |-> <<Span(<<" ", "A">>, Arial, Pt(12)), Span(<<"b", " ">>, <<"T">>, Pt(10))>>,
       bbox |-> <<0, Pt(20), Pt(100), Pt(30)>>],
      [spans |-> <<Span(<<"T">>, <<"T">>, Pt(18))>>,
       bbox |-> <<0, 0, Pt(100), Pt(18)>>] }

\* A document written flat: each raw line says whether it continues the
\* block, opens a block or opens a page (the first line opens all three).
FlatDocs == SeqUpTo([line : RawLines, brk : {"line", "block", "page"}], MaxRaw)

\* The consecutive runs of f[from..to], a new run at every index in starts.
Runs(from, to, starts) ==
    LET st == Ascending({from} \cup {i \in starts : from < i /\ i <= to})
    IN  [k \in 1..Len(st) |-> <<st[k], IF k < Len(st) THEN st[k + 1] - 1 ELSE to>>]

\* The list of page dictionaries a flat document stands for.
Nest(f) ==
    IF f = <<>> THEN <<>>
    ELSE LET pages == Runs(1, Len(f), {i \in 1..Len(f) : f[i].brk = "page"})
             blocks(r) == Runs(r[1], r[2], {i \in 1..Len(f) : f[i].brk = "block"})
         IN  [p \in 1..Len(pages) |->
                [blocks |->
                    [b \in 1..Len(blocks(pages[p])) |->
                        [lines |-> [i \in 1..(blocks(pages[p])[b][2] - blocks(pages[p])[b][1] + 1)
                                        |-> f[blocks(pages[p])[b][1] + i - 1].line]]]]]

Docs == {Nest(f) : f \in FlatDocs}

\* Lines of two pages whose boxes touch, overlap or leave a gap.
SpacingLines ==
    {LineInfo(page, 0, <<"A">>, Arial, Pt(10), 0, y0, Pt(100), y1) :
        page \in {1, 2}, y0 \in {0, Pt(10), Pt(20)}, y1 \in {Pt(10), Pt(25)}}

\* A spacing-annotated line of the classifier's input.
MarkLine(text, size, sp) ==
    [LineInfo(1, 0, text, Arial, size, 0, 0, Pt(100), Pt(10)) EXCEPT !.spacing_before = sp]

\* Texts that fail one condition by themselves: empty, ending in a full stop
\* before trailing whitespace (and longer than 20 characters), ending in a
\* full-width question mark.
MarkTexts == {<<>>, Rep("x", 20) \o <<".", " ">>, <<"A", "U+FF1F">>}

\* Spacing-annotated lines: body lines of 21 characters in three sizes, a
\* short title in two sizes with unknown and with small spacing, and the
\* texts above at the largest size.
MarkLines ==
    {MarkLine(Rep("x", 21), size, None) : size \in {Pt(10), Pt(14), Pt(18)}}
    \cup {MarkLine(ChapterOne, size, sp) :
            size \in {Pt(14), Pt(18)}, sp \in {None, Some(Pt(2))}}
    \cup {MarkLine(text, Pt(18), None) : text \in MarkTexts}

\* Classified lines: two pages, two heights, text with and without markup;
\* the lower lines carry a spacing of 3.5.
HtmlLines ==
    {[LineInfo(page, 0, text, Arial, Pt(10), 0, y0, Pt(100), y0 + Pt(10))
        EXCEPT !.spacing_before = IF y0 = 0 THEN None ELSE Some(Pt(3) + 1),
               !.is_heading = h] :
        page \in {1, 2}, y0 \in {0, Pt(10)}, text \in {<<"A">>, <<"<", "b", ">">>},
        h \in BOOLEAN}

PipeLines ==
    {LineInfo(page, 0, text, Arial, size, 0, y0, Pt(100), y0 + Pt(4)) :
        page \in {1, 2}, y0 \in {0, Pt(10)}, text \in {ChapterOne, Rep("x", 21)},
        size \in {Pt(10), Pt(18)}}

\* size_delta_threshold 0.5, 2.0 (the default) and 4.0; spacing_threshold 2.0
\* and 4.0 (the default); max_title_len 11 and 80 (the default).
Args ==
    [size_delta_threshold : {1, Pt(2), Pt(4)},
     spacing_threshold : {Pt(2), Pt(4)},
     max_title_len : {11, 80}]

NoArgs == [size_delta_threshold |-> 0, spacing_threshold |-> 0, max_title_len |-> 0]

-----------------------------------------------------------------------------
(* Calls *)

Parse ==
    /\ pc = "raw"
    /\ lines_in' = all_lines(raw)
    /\ lines' = parse_pdf_lines(raw)
    /\ pc' = "parsed"
    /\ UNCHANGED <<raw, args, html>>

Spacing ==
    /\ pc = "start"
    /\ lines' = compute_line_spacing(lines_in)
    /\ pc' = "spaced"
    /\ UNCHANGED <<raw, lines_in, args, html>>

Mark(a) ==
    /\ pc = "spaced"
    /\ lines' = mark_heading_candidates(lines, a.size_delta_threshold,
                                         a.spacing_threshold, a.max_title_len)
    /\ args' = a
    /\ pc' = "marked"
    /\ UNCHANGED <<raw, lines_in, html>>

\* A second call on the list the first call returned, same thresholds.
MarkAgain ==
    /\ pc = "marked"
    /\ lines' = mark_heading_candidates(lines, args.size_delta_threshold,
                                         args.spacing_threshold, args.max_title_len)
    /\ pc' = "remarked"
    /\ UNCHANGED <<raw, lines_in, args, html>>

Build ==
    /\ pc = "marked"
    /\ html' = build_html_from_lines(lines)
    /\ pc' = "built"
    /\ UNCHANGED <<raw, lines_in, lines, args>>

Idle(ls, at) ==
    /\ raw = <<>>
    /\ lines_in = ls
    /\ lines = ls
    /\ args = NoArgs
    /\ html = <<>>
    /\ pc = at

\* parse_pdf_lines over every document.
InitParse ==
    /\ raw \in Docs
    /\ lines_in = <<>>
    /\ lines = <<>>
    /\ args = NoArgs
    /\ html = <<>>
    /\ pc = "raw"

SpecParse == InitParse /\ [][Parse]_vars

\* compute_line_spacing over every list of lines.
InitSpacing == \E ls \in SeqUpTo(SpacingLines, MaxSpacingLines) : Idle(ls, "start")

SpecSpacing == InitSpacing /\ [][Spacing]_vars

\* mark_heading_candidates, once and again, over every spacing-annotated list.
InitMark == \E ls \in SeqUpTo(MarkLines, MaxMarkLines) : Idle(ls, "spaced")

NextMark == (\E a \in Args : Mark(a)) \/ MarkAgain

SpecMark == InitMark /\ [][NextMark]_vars

\* build_html_from_lines over every classified list.
InitHtml == \E ls \in SeqUpTo(HtmlLines, MaxHtmlLines) : Idle(ls, "marked")

SpecHtml == InitHtml /\ [][Build]_vars

\* The three stages one after the other, as main() calls them.
Init == \E ls \in SeqUpTo(PipeLines, MaxPipeLines) : Idle(ls, "start")

Next == Spacing \/ (\E a \in Args : Mark(a)) \/ Build

Spec == Init /\ [][Next]_vars

-----------------------------------------------------------------------------
(* The documented behaviour, stated without the operators above *)

\* The k-th smallest of a sequence of numbers, counted with repetitions.
KthSmallest(sizes, k) ==
    CHOOSE v \in {sizes[i] : i \in 1..Len(sizes)} :
        /\ Cardinality({i \in 1..Len(sizes) : sizes[i] < v}) < k
        /\ Cardinality({i \in 1..Len(sizes) : sizes[i] <= v}) >= k

\* The statistical median of the sizes of the lines longer than 20 characters.
DocumentedMedian(ls) ==
    LET long == {i \in 1..Len(ls) : Len(ls[i].text) > 20}
        idx == Ascending(long)
        sizes == [k \in 1..Len(idx) |-> ls[idx[k]].size]
        n == Len(sizes)
    IN  IF n % 2 = 1
        THEN KthSmallest(sizes, (n + 1) \div 2)
        ELSE (KthSmallest(sizes, n \div 2) + KthSmallest(sizes, n \div 2 + 1)) \div 2

NoLongLine(ls) == \A i \in 1..Len(ls) : Len(ls[i].text) <= 20

\* The last character of the text that is not whitespace is a terminal mark.
EndsInTerminalMark(text) ==
    LET nw == {i \in 1..Len(text) : text[i] \notin {" ", "\t", "\n", "\r"}}
    IN  /\ nw # {}
        /\ text[CHOOSE i \in nw : \A j \in nw : j <= i]
              \in {".", "!", "?", "U+3002", "U+FF01", "U+FF1F"}

\* The five heading conditions of a line against a body median.
FiveConditions(l, median, a) ==
    /\ Len(l.text) > 0
    /\ l.size >= median + a.size_delta_threshold
    /\ l.spacing_before = None \/ l.spacing_before[1] >= a.spacing_threshold
    /\ Len(l.text) <= a.max_title_len
    /\ ~EndsInTerminalMark(l.text)

\* out is ls with is_heading set on every record, and nothing else changed.
LabelledBy(out, ls, median, a) ==
    /\ Len(out) = Len(ls)
    /\ \A i \in 1..Len(ls) :
          out[i] = [ls[i] EXCEPT !.is_heading = FiveConditions(ls[i], median, a)]

-----------------------------------------------------------------------------
(* Claims about mark_heading_candidates, under SpecMark *)

\* C1: when no line is longer than 20 characters the classifier takes a body
\* median of 0 and still labels every record by the five conditions.
C1_NoLongLineMedianZero ==
    (pc = "marked" /\ NoLongLine(lines_in)) => LabelledBy(lines, lines_in, 0, args)

\* C2: when some line is longer than 20 characters, every record ends with
\* is_heading equal to the conjunction of the five conditions against the
\* median of the sizes of the long lines.
C2_EveryRecordLabelled ==
    (pc = "marked" /\ ~NoLongLine(lines_in))
        => LabelledBy(lines, lines_in, DocumentedMedian(lines_in), args)

\* Two long lines of different sizes (the median is their average), one line
\* labelled a heading and one not.
C2_Witness ==
    /\ pc = "marked"
    /\ Cardinality({i \in 1..Len(lines_in) : Len(lines_in[i].text) > 20}) = 2
    /\ \E i, j \in 1..Len(lines_in) :
          /\ Len(lines_in[i].text) > 20 /\ Len(lines_in[j].text) > 20
          /\ lines_in[i].size = Pt(10) /\ lines_in[j].size = Pt(14)
    /\ \E i, j \in 1..Len(lines) : lines[i].is_heading /\ ~lines[j].is_heading

\* C6: a record that is a heading under size_delta_threshold t2 is a heading
\* under every t1 <= t2, the other two thresholds and the list being the same.
C6_MonotonicInSizeDelta ==
    pc = "marked" =>
        \A a1 \in Args :
            (/\ a1.size_delta_threshold <= args.size_delta_threshold
             /\ a1.spacing_threshold = args.spacing_threshold
             /\ a1.max_title_len = args.max_title_len)
            => LET low == mark_heading_candidates(lines_in, a1.size_delta_threshold,
                                                  a1.spacing_threshold, a1.max_title_len)
               IN  \A i \in 1..Len(lines) : lines[i].is_heading => low[i].is_heading

\* A call with the largest threshold that leaves a line unlabelled which the
\* smallest threshold labels, next to a line both label.
C6_Witness ==
    /\ pc = "marked"
    /\ args.size_delta_threshold = Pt(4)
    /\ LET low == mark_heading_candidates(lines_in, 1, args.spacing_threshold,
                                           args.max_title_len)
       IN  /\ \E i \in 1..Len(lines) : ~lines[i].is_heading /\ low[i].is_heading
           /\ \E i \in 1..Len(lines) : lines[i].is_heading /\ low[i].is_heading

\* C7: a second call with the same thresholds on the list the first call
\* returned leaves every record's is_heading as it was.
C7_Idempotent ==
    [][(pc = "marked" /\ pc' = "remarked")
          => /\ Len(lines') = Len(lines)
             /\ \A i \in 1..Len(lines) : lines'[i].is_heading = lines[i].is_heading]_vars

\* The second call has returned on a list with a heading, a non-heading and
\* three long lines of three sizes.
C7_Witness ==
    /\ pc = "remarked"
    /\ \E i, j \in 1..Len(lines) : lines[i].is_heading /\ ~lines[j].is_heading
    /\ {lines[i].size : i \in {k \in 1..Len(lines) : Len(lines[k].text) > 20}}
          = {Pt(10), Pt(14), Pt(18)}

-----------------------------------------------------------------------------
(* Claims about compute_line_spacing, under SpecSpacing *)

PagesOf(ls) == {ls[i].page : i \in 1..Len(ls)}

OnPage(ls, p) == SelectSeq(ls, LAMBDA l : l.page = p)

Unspaced(l) == [l EXCEPT !.spacing_before = None]

\* How often record r occurs in ls, spacing_before aside.
Count(ls, r) == Cardinality({i \in 1..Len(ls) : Unspaced(ls[i]) = Unspaced(r)})

\* out holds the records of ls, each as often, in ascending y0.
AscendingY0OrderOf(out, ls) ==
    /\ Len(out) = Len(ls)
    /\ \A i \in 1..Len(ls) : Count(out, ls[i]) = Count(ls, ls[i])
    /\ \A i \in 2..Len(out) : out[i - 1].y0 <= out[i].y0

\* C3: taking each page's records in the ascending-y0 order they are returned
\* in, every record but the first carries the gap to the record before it
\* when that gap is >= 0 and None when it is negative; none carries a
\* negative spacing_before.
C3_GapOrNone ==
    pc = "spaced" =>
        \A p \in PagesOf(lines_in) :
            LET out == OnPage(lines, p)
            IN  /\ AscendingY0OrderOf(out, OnPage(lines_in, p))
                /\ \A i \in 2..Len(out) :
                      LET gap == out[i].y0 - out[i - 1].y1
                      IN  out[i].spacing_before = IF gap >= 0 THEN Some(gap) ELSE None
                /\ \A i \in 1..Len(out) :
                      out[i].spacing_before # None => out[i].spacing_before[1] >= 0

\* One page with a positive gap, a zero gap and a negative gap.
C3_Witness ==
    /\ pc = "spaced"
    /\ \E p \in PagesOf(lines) :
          LET out == OnPage(lines, p)
          IN  \E i, j, k \in 2..Len(out) :
                /\ out[i].y0 - out[i - 1].y1 > 0 /\ out[i].spacing_before # None
                /\ out[j].y0 - out[j - 1].y1 = 0 /\ out[j].spacing_before = Some(0)
                /\ out[k].y0 - out[k - 1].y1 < 0 /\ out[k].spacing_before = None

\* C4: on every page the record returned first in ascending-y0 order, which
\* has the least y0 of the page, has spacing_before None; a record that
\* follows a record of another page in the returned list has None too.
C4_FirstOfPageNone ==
    pc = "spaced" =>
        /\ Len(lines) = Len(lines_in)
        /\ \A p \in PagesOf(lines_in) :
              LET out == OnPage(lines, p)
              IN  /\ out # <<>>
                  /\ \A i \in 1..Len(out) : out[1].y0 <= out[i].y0
                  /\ out[1].spacing_before = None
        /\ \A i \in 2..Len(lines) :
              lines[i].page # lines[i - 1].page => lines[i].spacing_before = None

\* Two pages given interleaved, the first record of the later page lying
\* below the bottom of the last record of the earlier one.
C4_Witness ==
    /\ pc = "spaced"
    /\ \E i \in 2..(Len(lines_in) - 1) :
          /\ lines_in[i].page # lines_in[i - 1].page
          /\ lines_in[i].page # lines_in[i + 1].page
    /\ \E i \in 2..Len(lines) :
          /\ lines[i].page # lines[i - 1].page
          /\ lines[i].y0 - lines[i - 1].y1 > 0

-----------------------------------------------------------------------------
(* Claims about build_html_from_lines, under SpecHtml *)

\* The bijections of 1..n.
Orderings(n) == {f \in [1..n -> 1..n] : \A i, j \in 1..n : f[i] = f[j] => i = j}

Reordered(ls, f) == [i \in 1..Len(ls) |-> ls[f[i]]]

RECURSIVE SplitAt(_, _)
\* s.split(sep) for a one-character sep.
SplitAt(s, sep) ==
    IF \A i \in 1..Len(s) : s[i] # sep THEN <<s>>
    ELSE LET k == CHOOSE i \in 1..Len(s) : s[i] = sep /\ \A j \in 1..(i - 1) : s[j] # sep
         IN  <<SubSeq(s, 1, k - 1)>> \o SplitAt(SubSeq(s, k + 1, Len(s)), sep)

StartsWith(s, prefix) ==
    Len(s) >= Len(prefix) /\ SubSeq(s, 1, Len(prefix)) = prefix

EndsWith(s, suffix) ==
    Len(s) >= Len(suffix) /\ SubSeq(s, Len(s) - Len(suffix) + 1, Len(s)) = suffix

IsHeadingElement(e) ==
    StartsWith(e, <<" ", " ", "<", "h", "2", " ">>) /\ EndsWith(e, <<"<", "/", "h", "2", ">">>)

IsParagraphElement(e) ==
    StartsWith(e, <<" ", " ", "<", "p", " ">>) /\ EndsWith(e, <<"<", "/", "p", ">">>)

\* C5: every ordering of the same records gives the same output, records of
\* one page that share a y0 included.
C5_OrderIndependent ==
    pc = "built" =>
        \A f \in Orderings(Len(lines)) : build_html_from_lines(Reordered(lines, f)) = html

\* C8: the output is one container holding exactly one element per record,
\* the elements in non-decreasing (page, y0) order, each an h2 element when
\* its record's is_heading is true and a p element otherwise.
C8_OneElementPerRecordInOrder ==
    pc = "built" =>
        LET rows == SplitAt(html, "\n")
            n == Len(lines)
        IN  /\ Len(rows) = n + 2
            /\ rows[1] = <<"<", "d", "i", "v", " ", "c", "l", "a", "s", "s", "=",
                     "\"", "p", "d", "f", "-", "l", "i",
                     "n", "e", "s", "\"", ">">>
            /\ rows[n + 2] = <<"<", "/", "d", "i", "v", ">">>
            /\ \E f \in Orderings(n) :
                  /\ \A i \in 2..n :
                        \/ lines[f[i - 1]].page < lines[f[i]].page
                        \/ /\ lines[f[i - 1]].page = lines[f[i]].page
                           /\ lines[f[i - 1]].y0 <= lines[f[i]].y0
                  /\ \A i \in 1..n :
                        /\ rows[i + 1] = element_of(lines[f[i]])
                        /\ IsHeadingElement(rows[i + 1]) <=> lines[f[i]].is_heading
                        /\ IsParagraphElement(rows[i + 1]) <=> ~lines[f[i]].is_heading

\* Three records given out of order: a heading on page 2, then a paragraph
\* and a heading on page 1 with the lower one first.
C8_Witness ==
    /\ pc = "built"
    /\ Len(lines) = 3
    /\ lines[1].page = 2 /\ lines[1].is_heading
    /\ lines[2].page = 1 /\ lines[2].y0 = Pt(10) /\ ~lines[2].is_heading
    /\ lines[3].page = 1 /\ lines[3].y0 = 0 /\ lines[3].is_heading

-----------------------------------------------------------------------------
(* Claim about parse_pdf_lines, under SpecParse *)

\* The text of a raw line: its spans' texts joined, whitespace trimmed.
TrimmedText(rawline) ==
    LET t == Flatten([i \in 1..Len(rawline.spans) |-> rawline.spans[i].text])
        nw == {i \in 1..Len(t) : t[i] \notin {" ", "\t", "\n", "\r"}}
    IN  IF nw = {} THEN <<>>
        ELSE SubSeq(t, CHOOSE i \in nw : \A j \in nw : i <= j,
                       CHOOSE i \in nw : \A j \in nw : j <= i)

\* The raw lines of page p that have text, in extraction order.
KeptRawLines(p) ==
    SelectSeq(Flatten([b \in 1..Len(raw[p].blocks) |-> raw[p].blocks[b].lines]),
              LAMBDA r : TrimmedText(r) # <<>>)

\* C9: on every page the records carry line_index 0, 1, ..., n-1 in
\* extraction order, raw lines without spans or text taking no index, and
\* no two records share (page, line_index).
C9_LineIndexPerPage ==
    pc = "parsed" =>
        /\ \A i \in 1..Len(lines) : lines[i].page \in 1..Len(raw)
        /\ \A i, j \in 1..Len(lines) :
              (lines[i].page = lines[j].page /\ lines[i].line_index = lines[j].line_index)
                  => i = j
        /\ \A p \in 1..Len(raw) :
              LET kept == KeptRawLines(p)
                  recs == {i \in 1..Len(lines) : lines[i].page = p}
              IN  /\ Cardinality(recs) = Len(kept)
                  /\ \A k \in 1..Len(kept) :
                        \E i \in recs :
                            /\ lines[i].line_index = k - 1
                            /\ lines[i].text = TrimmedText(kept[k])
                            /\ lines[i].y0 = kept[k].bbox[2]

\* A second page of two blocks: a raw line without text, then a record in
\* each block, the second block's record taking index 1.
C9_Witness ==
    /\ pc = "parsed"
    /\ Len(raw) = 2
    /\ Len(raw[2].blocks) = 2
    /\ Len(raw[2].blocks[1].lines) = 2
    /\ TrimmedText(raw[2].blocks[1].lines[1]) = <<>>
    /\ \E i, j \in 1..Len(lines) :
          /\ lines[i].page = 1
          /\ lines[j].page = 2 /\ lines[j].line_index = 1
          /\ lines[j].y0 = raw[2].blocks[2].lines[1].bbox[2]

-----------------------------------------------------------------------------
(* Claim about the three stages on the empty list, under Spec *)

\* C10: the empty list comes back empty from compute_line_spacing and from
\* mark_heading_candidates, and build_html_from_lines returns the container
\* with nothing inside.
C10_EmptyPassesThrough ==
    lines_in = <<>> =>
        /\ pc \in {"spaced", "marked", "built"} => lines = <<>>
        /\ pc = "built" => html = <<"<", "d", "i", "v", " ", "c", "l", "a", "s", "s", "=",
                     "\"", "p", "d", "f", "-", "l", "i",
                     "n", "e", "s", "\"", ">", "\n", "<",
                     "/", "d", "i", "v", ">">>

C10_Witness == lines_in = <<>> /\ pc = "built"

=============================================================================
